---- MODULE Spec2Model ----
(***************************************************************************)
(* Model of the "always online" connector of caterpillar-plugins           *)
(* (alwaysonline.py).  Each inbound request runs AlwaysOnline.connect on   *)
(* its own thread; the Elasticsearch index is the only state shared        *)
(* between requests.  One action models the code between two blocking      *)
(* backend calls of connect.                                               *)
(*                                                                         *)
(* bytes are sequences of small integers, str values are sequences of      *)
(* one-character strings; decode/encode under CLIENT_ENCODING are modelled *)
(* by a codec with one undecodable byte and one byte that does not         *)
(* round-trip (as in cp932, euc-kr, utf-7 ...).                            *)
(***************************************************************************)
EXTENDS Integers, Sequences, FiniteSets, TLC

\* ------------------------------------------------------------------ bounds
NumReqs == 2        \* requests handled (concurrently) by the connector
MaxChunks == 1      \* chunks a client delivers to the relay loop before it closes or idles

\* --------------------------------------------------------------- constants
buffer_size == 8192

Reqs == 1..NumReqs

\* ------------------------------------------------------------------ codec
\* One character of str -> one byte, bytes.decode / str.encode under client_encoding.
Chars == {"a", "b", "E1", "E2", "E3", "E4", "E5"}

EncodeChar(c) ==
    CASE c = "a" -> 0
      [] c = "b" -> 1
      [] c = "E1" -> 11
      [] c = "E2" -> 12
      [] c = "E3" -> 13
      [] c = "E4" -> 14
      [] c = "E5" -> 15
      [] OTHER -> 0

\* byte 2 is a second spelling of "b" (decodes, but encodes back as 1); byte 3 is undecodable
Decodable(b) == b # 3

DecodeByte(b) ==
    CASE b = 0 -> "a"
      [] b = 1 -> "b"
      [] b = 2 -> "b"
      [] b = 11 -> "E1"
      [] b = 12 -> "E2"
      [] b = 13 -> "E3"
      [] b = 14 -> "E4"
      [] b = 15 -> "E5"
      [] OTHER -> "a"

\* str.encode(client_encoding)
Encode(s) == [i \in 1..Len(s) |-> EncodeChar(s[i])]

\* bytes.decode(client_encoding) raises UnicodeDecodeError
DecodeRaises(bs) == \E i \in 1..Len(bs) : ~Decodable(bs[i])

\* bytes.decode(client_encoding), when it does not raise
Decode(bs) == [i \in 1..Len(bs) |-> DecodeByte(bs[i])]

\* ------------------------------------------------------------- url, address
HasScheme(u) == \E i \in 1..Len(u) : u[i] = "://"

\* target_url of connect: verbatim when it holds "://", else synthesized from
\* scheme, webserver and port (the token for the port stands for its rendering)
TargetUrl(in) ==
    IF HasScheme(in.url)
    THEN in.url
    ELSE <<in.scheme, "://", in.webserver, ":", in.port>> \o in.url

\* hashlib.sha256(url).hexdigest(): injective on the urls of the model
generate_id(url) == <<"sha256">> \o url

\* the requests the connector framework may hand to connect
Inputs ==
    { [method |-> "GET", url |-> <<"http", "://", "h", "/a_b">>, scheme |-> "http",
       webserver |-> "h", port |-> "80", datalen |-> 1],
      [method |-> "GET", url |-> <<"/a_b">>, scheme |-> "http",
       webserver |-> "h", port |-> "80", datalen |-> 1],
      [method |-> "POST", url |-> <<"/a_b">>, scheme |-> "https",
       webserver |-> "h", port |-> "443", datalen |-> buffer_size - 1],
      [method |-> "POST", url |-> <<"/a_b">>, scheme |-> "http",
       webserver |-> "h", port |-> "80", datalen |-> buffer_size] }

NoInput == [method |-> "", url |-> <<>>, scheme |-> "", webserver |-> "", port |-> "",
            datalen |-> 0]

TargetUrls == {TargetUrl(in) : in \in Inputs}
Ids == {generate_id(u) : u \in TargetUrls}

\* --------------------------------------------------------------- the store
\* a document of the index: _source = {url, content, timestamp}
NoDoc == [present |-> FALSE, url |-> <<>>, hascontent |-> FALSE, content |-> <<>>,
          timestamp |-> 0]

Doc(url, content, ts) ==
    [present |-> TRUE, url |-> url, hascontent |-> TRUE, content |-> content,
     timestamp |-> ts]

EmptyStore == [i \in Ids |-> NoDoc]

SeedUrl == <<"http", "://", "h", "/a_b">>

\* what the index may hold when the process starts: nothing, a document written
\* earlier for SeedUrl, or a foreign document without a content field
InitStores ==
    { EmptyStore,
      [EmptyStore EXCEPT ![generate_id(SeedUrl)] = Doc(SeedUrl, <<"b", "a">>, 0)],
      [EmptyStore EXCEPT ![generate_id(SeedUrl)] =
          [present |-> TRUE, url |-> SeedUrl, hascontent |-> FALSE, content |-> <<>>,
           timestamp |-> 0]] }

\* ---------------------------------------------------------- fetch results
Res(st, body) == [st |-> st, body |-> body]
NotCalled == Res(-1, <<>>)
Raised == Res(-2, <<>>)

Sources == {"cache", "archive", "origin", "search", "llm"}

\* ------------------------------------------------------- backend outcomes
\* what the outside world may answer to one call; kind says how the call ends
Out(kind, st, body) == [kind |-> kind, st |-> st, body |-> body]

ArchiveBody == <<1>>

ArchiveOutcomes ==
    { Out("lookup_raises", 0, <<>>),        \* requests.get of the availability API fails
      Out("lookup_status", 503, <<>>),      \* availability API answers non-200
      Out("bad_json", 200, <<>>),           \* 200, body is not the expected JSON
      Out("no_snapshot", 200, <<>>),        \* 200, no closest snapshot
      Out("empty_url", 200, <<>>),          \* 200, closest snapshot without url
      Out("snapshot_raises", 200, <<>>),    \* requests.get of the snapshot fails
      Out("snapshot", 200, ArchiveBody),    \* snapshot fetched
      Out("snapshot", 404, <<1, 1>>) }      \* snapshot url answers 404 with a page

OriginBodies == { <<0>>, <<2>>, <<3>> }

OriginOutcomes ==
    { Out("raises", 0, <<>>), Out("response", 404, <<0, 0>>) }
    \cup { Out("response", 200, b) : b \in OriginBodies }

SearchBodies == { <<1, 0, 1>>, <<3, 3>> }

SerpOutcomes ==
    { Out("raises", 0, <<>>), Out("response", 500, <<0>>) }
    \cup { Out("response", 200, b) : b \in SearchBodies }

\* the completion text is a str
SummaryText == <<"a", "b">>

LlmOutcomes ==
    { Out("raises", 0, <<>>), Out("response", 500, <<>>),
      Out("bad_json", 200, <<>>), Out("completion", 200, <<>>) }

\* ------------------------------------------------------------ the sources
\* faulty variant of fetch_cache_from_elasticsearch: every exception is reported
\* as a miss
fetch_cache_AllMiss(url, st, unreachable) ==
    LET doc == st[generate_id(url)] IN
    IF unreachable \/ ~doc.present \/ ~doc.hascontent THEN Res(404, <<>>)
    ELSE Res(200, Encode(doc.content))

\* fetch_cache_from_elasticsearch; unreachable: es.get raises something other
\* than NotFoundError
fetch_cache_from_elasticsearch(url, st, unreachable) ==
    LET doc == st[generate_id(url)] IN
    IF unreachable THEN Res(502, <<>>)
    ELSE IF ~doc.present THEN Res(404, <<>>)
    ELSE IF ~doc.hascontent THEN Res(502, <<>>)
    ELSE Res(200, Encode(doc.content))

\* the availability lookup is made outside the try block
ArchiveLookupRaises(o) == o.kind = "lookup_raises"

\* fetch_cache_from_internet_archive, when the lookup does not raise
fetch_cache_from_internet_archive(o) ==
    CASE o.kind = "lookup_status" -> Res(o.st, <<>>)
      [] o.kind = "bad_json" -> Res(502, <<>>)
      [] o.kind = "no_snapshot" -> Res(404, <<>>)
      [] o.kind = "empty_url" -> Res(404, <<>>)
      [] o.kind = "snapshot_raises" -> Res(502, <<>>)
      [] o.kind = "snapshot" -> Res(o.st, IF o.st = 200 THEN o.body ELSE <<>>)
      [] OTHER -> Res(502, <<>>)

\* fetch_origin_server
fetch_origin_server(o) ==
    IF o.kind = "raises" THEN Res(502, Encode(<<"E1">>))
    ELSE Res(o.st, o.body)

\* the characters of a url, token by token
CharsOf(tok) ==
    CASE tok = "http" -> <<"h", "t", "t", "p">>
      [] tok = "https" -> <<"h", "t", "t", "p", "s">>
      [] tok = "://" -> <<":", "/", "/">>
      [] tok = "80" -> <<"8", "0">>
      [] tok = "443" -> <<"4", "4", "3">>
      [] tok = "/a_b" -> <<"/", "a", "_", "b">>
      [] OTHER -> <<tok>>

RECURSIVE UrlChars(_)
UrlChars(u) == IF u = <<>> THEN <<>> ELSE CharsOf(Head(u)) \o UrlChars(Tail(u))

Alnum == {"h", "t", "p", "s", "a", "b", "0", "3", "4", "8"}

\* \w of the pattern: letters, digits and the underscore
IsWordChar(c) == c \in Alnum \cup {"_"}

\* \s of the pattern
IsSpaceChar(c) == c = " "

StartsWith(cs, pre) == Len(cs) >= Len(pre) /\ SubSeq(cs, 1, Len(pre)) = pre

\* length of the match of ^https?:\/\/ at the start of the url, 0 when none
SchemeMatch(cs) ==
    IF StartsWith(cs, <<"h", "t", "t", "p", ":", "/", "/">>) THEN 7
    ELSE IF StartsWith(cs, <<"h", "t", "t", "p", "s", ":", "/", "/">>) THEN 8
    ELSE 0

\* re.sub(r'^https?:\/\/|[^\w\s]', ' ', url), line 121
Sanitize(cs) ==
    LET n == SchemeMatch(cs) IN
    (IF n > 0 THEN <<" ">> ELSE <<>>)
    \o [i \in 1..(Len(cs) - n) |->
           IF IsWordChar(cs[i + n]) \/ IsSpaceChar(cs[i + n]) THEN cs[i + n] ELSE " "]

\* query_to_serp
query_to_serp(o) ==
    IF o.kind = "raises" THEN Res(502, Encode(<<"E3">>))
    ELSE IF o.st # 200 THEN Res(o.st, Encode(<<"E2">>))
    ELSE Res(200, o.body)

\* query_to_llm
query_to_llm(content, o) ==
    IF DecodeRaises(content) \/ o.kind = "raises" \/ o.kind = "bad_json"
    THEN Res(502, Encode(<<"E5">>))
    ELSE IF o.st = 200 THEN Res(200, Encode(SummaryText))
    ELSE Res(o.st, Encode(<<"E4">>))

\* es.index succeeds: the body decodes and the store is reachable
PushSucceeds(data, unreachable) == ~DecodeRaises(data) /\ ~unreachable

\* faulty variant of push_cache_to_elasticsearch: an existing document is kept
push_cache_KeepExisting(url, data, st, ts, unreachable) ==
    IF PushSucceeds(data, unreachable) /\ generate_id(url) \in DOMAIN st
       /\ ~st[generate_id(url)].present
    THEN [st EXCEPT ![generate_id(url)] = Doc(url, Decode(data), ts)]
    ELSE st

\* faulty variant of push_cache_to_elasticsearch: the bytes are put in the body
\* undecoded, serialising them raises, the exception is swallowed
push_cache_NoDecode(url, data, st, ts, unreachable) == st

\* faulty variant of push_cache_to_elasticsearch: the content is appended to the
\* content of the document already stored
push_cache_Append(url, data, st, ts, unreachable) ==
    IF PushSucceeds(data, unreachable)
    THEN [st EXCEPT ![generate_id(url)] = Doc(url, @.content \o Decode(data), ts)]
    ELSE st

\* push_cache_to_elasticsearch: the store afterwards (any exception is swallowed)
push_cache_to_elasticsearch(url, data, st, ts, unreachable) ==
    IF PushSucceeds(data, unreachable)
    THEN [st EXCEPT ![generate_id(url)] = Doc(url, Decode(data), ts)]
    ELSE st

\* connect, the tests that steer the chain
\* faulty variant of UsesChain: only CONNECT requests are relayed
UsesChain_AllButConnect(method) == method # "CONNECT"

\* "if method == b\"GET\"" (line 215)
UsesChain(method) == method = "GET"

\* faulty variant of IsSuccess: everything but a definite miss counts as content
IsSuccess_NotMiss(st) == st # 404

\* "if status_code == 200" after a fetch
IsSuccess(st) == st = 200

\* faulty variant of ShouldTry: the "if not connected" test is missing
ShouldTry_Always(isConnected) == TRUE

\* "if not connected" before each source
ShouldTry(isConnected) == ~isConnected

\* the test that chooses the summary over the raw search results (line 241)
UseSummary(search_status, llm_status) == search_status = 200

\* faulty variant of ResolvedAfterSearch: resolved only when the summary succeeded
ResolvedAfterSearch_IfSummarized(llm_status) == llm_status = 200

\* "connected = True" closes the search block whatever the summarizer returned
\* (line 245)
ResolvedAfterSearch(llm_status) == TRUE

\* faulty variant of ChainNext: the origin block comes before the archive block
ChainNext_OriginFirst(p) ==
    CASE p = "cache" -> "origin"
      [] p = "origin" -> "archive"
      [] p = "archive" -> "search"
      [] OTHER -> "send"

\* the order of the "if not connected" blocks of connect
ChainNext(p) ==
    CASE p = "cache" -> "archive"
      [] p = "archive" -> "origin"
      [] p = "origin" -> "search"
      [] OTHER -> "send"

\* faulty variant of PutArgs: the request's url instead of the absolute url
PutArgs_RawUrl(url_arg, abs_url, buf, body) == [url |-> url_arg, data |-> buf]

\* the arguments of the put (line 234)
PutArgs(url_arg, abs_url, buf, body) == [url |-> abs_url, data |-> buf]

\* faulty variant of PushRaises: the decode is made outside the try block
PushRaises_DecodeOutside(data, unreachable) == DecodeRaises(data)

\* an exception leaves push_cache_to_elasticsearch: never, the try block holds
\* both the decode and the es.index call
PushRaises(data, unreachable) == FALSE

\* ------------------------------------------------------------------ state
VARIABLES
    store,          \* the Elasticsearch index: id -> document
    clock,          \* datetime.now(UTC), advanced by every put
    pc,             \* where each request's thread stands in connect
    input,          \* the arguments connect was called with
    target_url,     \* connect's target_url
    buffered,       \* connect's buffered
    connected,      \* connect's connected (the value connect returns)
    status_code,    \* connect's status_code
    content,        \* connect's content
    llm_status_code,\* connect's llm_status_code
    llm_content,    \* connect's llm_content
    upstream,       \* lengths of the chunks written to the origin socket
    reply,          \* length of the response waiting unread on the origin socket
    calls,          \* history: the backend calls of each request, in order
    results,        \* history: what each source returned to each request
    puts,           \* history: the calls of push_cache_to_elasticsearch, in order
    sent,           \* history: the bodies written to the client connection
    overlap,        \* history: the requests in flight when connect was called
    query           \* history: the q parameter sent to the search API

locals == <<input, target_url, buffered, connected, status_code, content,
            llm_status_code, llm_content>>
hist == <<calls, results, puts, sent, overlap, query>>
vars == <<store, clock, pc, locals, upstream, reply, hist>>

Init ==
    /\ store \in InitStores
    /\ clock = 1
    /\ pc = [r \in Reqs |-> "idle"]
    /\ input = [r \in Reqs |-> NoInput]
    /\ target_url = [r \in Reqs |-> <<>>]
    /\ buffered = [r \in Reqs |-> <<>>]
    /\ connected = [r \in Reqs |-> FALSE]
    /\ status_code = [r \in Reqs |-> 0]
    /\ content = [r \in Reqs |-> <<>>]
    /\ llm_status_code = [r \in Reqs |-> 0]
    /\ llm_content = [r \in Reqs |-> <<>>]
    /\ upstream = [r \in Reqs |-> <<>>]
    /\ reply = [r \in Reqs |-> 0]
    /\ calls = [r \in Reqs |-> <<>>]
    /\ results = [r \in Reqs |-> [s \in Sources |-> NotCalled]]
    /\ puts = <<>>
    /\ sent = [r \in Reqs |-> <<>>]
    /\ overlap = [r \in Reqs |-> {}]
    /\ query = [r \in Reqs |-> <<>>]

\* bookkeeping of one backend call
Record(r, src, res) ==
    /\ calls' = [calls EXCEPT ![r] = Append(@, src)]
    /\ results' = [results EXCEPT ![r][src] = res]

\* the request's thread is inside connect
InFlight(q) == pc[q] \notin {"idle", "done", "raised"}

\* connect, lines 183-215: the framework calls connect with a parsed request;
\* requests are numbered in the order the framework accepts them
Connect(r, in) ==
    /\ pc[r] = "idle"
    /\ \A q \in Reqs : q < r => pc[q] # "idle"
    /\ input' = [input EXCEPT ![r] = in]
    /\ target_url' = [target_url EXCEPT ![r] = TargetUrl(in)]
    /\ buffered' = [buffered EXCEPT ![r] = <<>>]
    /\ connected' = [connected EXCEPT ![r] = FALSE]
    /\ pc' = [pc EXCEPT ![r] = IF UsesChain(in.method) THEN "cache" ELSE "relay"]
    /\ overlap' = [overlap EXCEPT ![r] = {q \in Reqs : InFlight(q)}]
    /\ UNCHANGED <<store, clock, status_code, content, llm_status_code, llm_content,
                   upstream, reply, calls, results, puts, sent, query>>

\* connect, lines 216-221
TryCache(r) ==
    /\ pc[r] = "cache"
    /\ IF ShouldTry(connected[r])
       THEN \E unreachable \in BOOLEAN :
              LET res == fetch_cache_from_elasticsearch(target_url[r], store, unreachable) IN
              /\ status_code' = [status_code EXCEPT ![r] = res.st]
              /\ content' = [content EXCEPT ![r] = res.body]
              /\ Record(r, "cache", res)
              /\ IF IsSuccess(res.st)
                 THEN /\ buffered' = [buffered EXCEPT ![r] = @ \o res.body]
                      /\ connected' = [connected EXCEPT ![r] = TRUE]
                 ELSE UNCHANGED <<buffered, connected>>
       ELSE UNCHANGED <<status_code, content, calls, results, buffered, connected>>
    /\ pc' = [pc EXCEPT ![r] = ChainNext("cache")]
    /\ UNCHANGED <<store, clock, input, target_url, llm_status_code, llm_content,
                   upstream, reply, puts, sent, overlap, query>>

\* connect, lines 223-228
TryArchive(r) ==
    /\ pc[r] = "archive"
    /\ IF ShouldTry(connected[r])
       THEN \E o \in ArchiveOutcomes :
              IF ArchiveLookupRaises(o)
              THEN \* the exception leaves fetch_cache_from_internet_archive and connect
                   /\ Record(r, "archive", Raised)
                   /\ pc' = [pc EXCEPT ![r] = "raised"]
                   /\ UNCHANGED <<status_code, content, buffered, connected>>
              ELSE LET res == fetch_cache_from_internet_archive(o) IN
                   /\ status_code' = [status_code EXCEPT ![r] = res.st]
                   /\ content' = [content EXCEPT ![r] = res.body]
                   /\ Record(r, "archive", res)
                   /\ pc' = [pc EXCEPT ![r] = ChainNext("archive")]
                   /\ IF IsSuccess(res.st)
                      THEN /\ buffered' = [buffered EXCEPT ![r] = @ \o res.body]
                           /\ connected' = [connected EXCEPT ![r] = TRUE]
                      ELSE UNCHANGED <<buffered, connected>>
       ELSE /\ pc' = [pc EXCEPT ![r] = ChainNext("archive")]
            /\ UNCHANGED <<status_code, content, calls, results, buffered, connected>>
    /\ UNCHANGED <<store, clock, input, target_url, llm_status_code, llm_content,
                   upstream, reply, puts, sent, overlap, query>>

\* connect, lines 230-233: the origin fetch, up to the call of the cache put
TryOrigin(r) ==
    /\ pc[r] = "origin"
    /\ IF ShouldTry(connected[r])
       THEN \E o \in OriginOutcomes :
              LET res == fetch_origin_server(o) IN
              /\ status_code' = [status_code EXCEPT ![r] = res.st]
              /\ content' = [content EXCEPT ![r] = res.body]
              /\ Record(r, "origin", res)
              /\ IF IsSuccess(res.st)
                 THEN /\ buffered' = [buffered EXCEPT ![r] = @ \o res.body]
                      /\ pc' = [pc EXCEPT ![r] = "push"]
                 ELSE /\ UNCHANGED buffered
                      /\ pc' = [pc EXCEPT ![r] = ChainNext("origin")]
       ELSE /\ pc' = [pc EXCEPT ![r] = ChainNext("origin")]
            /\ UNCHANGED <<status_code, content, calls, results, buffered>>
    /\ UNCHANGED <<store, clock, input, target_url, connected, llm_status_code,
                   llm_content, upstream, reply, puts, sent, overlap, query>>

\* connect, lines 234-235: push_cache_to_elasticsearch, then connected = True
PushCache(r) ==
    /\ pc[r] = "push"
    /\ \E unreachable \in BOOLEAN :
         LET a == PutArgs(input[r].url, target_url[r], buffered[r], content[r]) IN
         /\ store' = push_cache_to_elasticsearch(a.url, a.data, store, clock, unreachable)
         /\ puts' = Append(puts, [req |-> r, url |-> a.url, data |-> a.data,
                                  ok |-> PushSucceeds(a.data, unreachable)])
         /\ IF PushRaises(a.data, unreachable)
            THEN /\ pc' = [pc EXCEPT ![r] = "raised"]
                 /\ UNCHANGED connected
            ELSE /\ pc' = [pc EXCEPT ![r] = ChainNext("origin")]
                 /\ connected' = [connected EXCEPT ![r] = TRUE]
    /\ clock' = clock + 1
    /\ calls' = [calls EXCEPT ![r] = Append(@, "put")]
    /\ UNCHANGED <<input, target_url, buffered, status_code, content, llm_status_code,
                   llm_content, upstream, reply, results, sent, overlap, query>>

\* connect, lines 237-239
TrySearch(r) ==
    /\ pc[r] = "search"
    /\ IF ShouldTry(connected[r])
       THEN \E o \in SerpOutcomes :
              LET res == query_to_serp(o) IN
              /\ status_code' = [status_code EXCEPT ![r] = res.st]
              /\ content' = [content EXCEPT ![r] = res.body]
              /\ Record(r, "search", res)
              /\ query' = [query EXCEPT ![r] = Sanitize(UrlChars(target_url[r]))]
              /\ pc' = [pc EXCEPT ![r] = IF IsSuccess(res.st) THEN "llm"
                                            ELSE ChainNext("search")]
       ELSE /\ pc' = [pc EXCEPT ![r] = ChainNext("search")]
            /\ UNCHANGED <<status_code, content, calls, results, query>>
    /\ UNCHANGED <<store, clock, input, target_url, buffered, connected, llm_status_code,
                   llm_content, upstream, reply, puts, sent, overlap>>

\* connect, lines 240-245
Summarize(r) ==
    /\ pc[r] = "llm"
    /\ \E o \in LlmOutcomes :
         LET res == query_to_llm(content[r], o) IN
         /\ llm_status_code' = [llm_status_code EXCEPT ![r] = res.st]
         /\ llm_content' = [llm_content EXCEPT ![r] = res.body]
         /\ Record(r, "llm", res)
         /\ buffered' = [buffered EXCEPT ![r] =
                IF UseSummary(status_code[r], res.st) THEN @ \o res.body
                ELSE @ \o content[r]]
         /\ connected' = [connected EXCEPT ![r] = ResolvedAfterSearch(res.st)]
    /\ pc' = [pc EXCEPT ![r] = ChainNext("search")]
    /\ UNCHANGED <<store, clock, input, target_url, status_code, content, upstream, reply,
                   puts, sent, overlap, query>>

\* connect, lines 247 and 267: conn.send(buffered); return connected
Send(r) ==
    /\ pc[r] = "send"
    /\ sent' = [sent EXCEPT ![r] = Append(@, buffered[r])]
    /\ pc' = [pc EXCEPT ![r] = "done"]
    /\ UNCHANGED <<store, clock, locals, upstream, reply, calls, results, puts, overlap, query>>

\* connect, lines 249-263: open the socket to the origin; connect may raise
RelayOpen(r) ==
    /\ pc[r] = "relay"
    /\ \E refused \in BOOLEAN :
         pc' = [pc EXCEPT ![r] = IF refused THEN "raised" ELSE "sendfirst"]
    /\ UNCHANGED <<store, clock, locals, upstream, reply, hist>>

\* sendall, lines 193-195: first chunk, return when it is shorter than the buffer
RelaySendFirst(r) ==
    /\ pc[r] = "sendfirst"
    /\ upstream' = [upstream EXCEPT ![r] = Append(@, input[r].datalen)]
    /\ pc' = [pc EXCEPT ![r] = IF input[r].datalen < buffer_size THEN "done" ELSE "pump"]
    /\ UNCHANGED <<store, clock, locals, reply, hist>>

\* sendall, lines 198-206: one turn of the loop; n = 0 stands for a closed
\* connection, a timeout or a failed send, all of which leave the loop
RelayPump(r) ==
    /\ pc[r] = "pump"
    /\ \E n \in {0, buffer_size} :
         IF n = 0
         THEN /\ pc' = [pc EXCEPT ![r] = "done"]
              /\ UNCHANGED upstream
         ELSE /\ Len(upstream[r]) <= MaxChunks
              /\ upstream' = [upstream EXCEPT ![r] = Append(@, n)]
              /\ UNCHANGED pc
    /\ UNCHANGED <<store, clock, locals, reply, hist>>

\* the origin answers on the socket while connect is still running; connect has
\* no recv on the origin socket, so the answer stays there
OriginReplies(r) ==
    /\ pc[r] = "pump"
    /\ upstream[r] # <<>>
    /\ reply[r] = 0
    /\ reply' = [reply EXCEPT ![r] = buffer_size]
    /\ UNCHANGED <<store, clock, pc, locals, upstream, hist>>

Next ==
    \/ \E r \in Reqs, in \in Inputs : Connect(r, in)
    \/ \E r \in Reqs : TryCache(r)
    \/ \E r \in Reqs : TryArchive(r)
    \/ \E r \in Reqs : TryOrigin(r)
    \/ \E r \in Reqs : PushCache(r)
    \/ \E r \in Reqs : TrySearch(r)
    \/ \E r \in Reqs : Summarize(r)
    \/ \E r \in Reqs : Send(r)
    \/ \E r \in Reqs : RelayOpen(r)
    \/ \E r \in Reqs : RelaySendFirst(r)
    \/ \E r \in Reqs : RelayPump(r)
    \/ \E r \in Reqs : OriginReplies(r)

Spec == Init /\ [][Next]_vars

TypeOK ==
    /\ \A r \in Reqs : pc[r] \in {"idle", "cache", "archive", "origin", "push", "search",
                                  "llm", "send", "done", "raised", "relay", "sendfirst",
                                  "pump"}
    /\ \A i \in Ids : store[i].present \in BOOLEAN

\* ------------------------------------------------------------ vocabulary
IsGet(r) == input[r].method = "GET"
Done(r) == pc[r] = "done"
Called(r, src) == results[r][src] # NotCalled
\* the source returned a status other than 200
Missed(r, src) == Called(r, src) /\ results[r][src] # Raised /\ results[r][src].st # 200
Hit(r, src) == results[r][src].st = 200
PutsOf(r) == SelectSeq(puts, LAMBDA p : p.req = r)
\* the body the client received is exactly b
SentExactly(r, b) == sent[r] = <<b>>

\* C1: a GET request whose cache lookup returned 200 never invokes the archive,
\* the origin, the search API or the summarizer (nor the cache put), and the
\* body sent to the client is exactly the cached content
C1_ShortCircuit ==
    \A r \in Reqs :
        (IsGet(r) /\ Hit(r, "cache")) =>
            /\ calls[r] = <<"cache">>
            /\ \A s \in Sources \ {"cache"} : ~Called(r, s)
            /\ Done(r) => SentExactly(r, results[r]["cache"].body)

C1_Witness ==
    \E r \in Reqs :
        /\ Done(r) /\ IsGet(r) /\ Hit(r, "cache")
        /\ results[r]["cache"].body # <<>>
        /\ SentExactly(r, results[r]["cache"].body)

\* C2: cache 404, archive 404, origin 200 with body B: the chain ends resolved,
\* the client receives exactly B, and the request makes exactly one cache put,
\* with the absolute url and B
C2_FallbackOnMiss ==
    \A r \in Reqs :
        ( /\ Done(r) /\ IsGet(r)
          /\ results[r]["cache"].st = 404
          /\ results[r]["archive"].st = 404
          /\ Hit(r, "origin") ) =>
            /\ connected[r]
            /\ SentExactly(r, results[r]["origin"].body)
            /\ Len(PutsOf(r)) = 1
            /\ PutsOf(r)[1].url = TargetUrl(input[r])
            /\ PutsOf(r)[1].data = results[r]["origin"].body
            /\ HasScheme(PutsOf(r)[1].url)

C2_Witness ==
    \E r \in Reqs :
        /\ Done(r) /\ IsGet(r) /\ ~HasScheme(input[r].url)
        /\ results[r]["cache"].st = 404 /\ results[r]["archive"].st = 404
        /\ Hit(r, "origin") /\ results[r]["origin"].body # <<>>
        /\ Len(PutsOf(r)) = 1

\* C3: all four sources returned a non-200 status: the chain ends unresolved,
\* the client receives the empty body and the request made no cache put
C3_FullExhaustion ==
    \A r \in Reqs :
        ( /\ Done(r) /\ IsGet(r)
          /\ \A s \in {"cache", "archive", "origin", "search"} : Missed(r, s) ) =>
            /\ ~connected[r]
            /\ SentExactly(r, <<>>)
            /\ Len(PutsOf(r)) = 0
            /\ "put" \notin {calls[r][i] : i \in 1..Len(calls[r])}

C3_Witness ==
    \E r \in Reqs :
        /\ Done(r) /\ IsGet(r)
        /\ \A s \in {"cache", "archive", "origin", "search"} : Missed(r, s)
        /\ results[r]["origin"].body # <<>>
        /\ results[r]["search"].body # <<>>
        /\ SentExactly(r, <<>>)

\* C4: the search returned 200 with body S: the client receives the summary T
\* when the summarizer returned 200, and the raw search body S when the
\* summarizer returned a non-200 status
C4_SearchSummaryComposition ==
    \A r \in Reqs :
        (Done(r) /\ IsGet(r) /\ Hit(r, "search") /\ Called(r, "llm")) =>
            /\ Hit(r, "llm") => SentExactly(r, results[r]["llm"].body)
            /\ ~Hit(r, "llm") => SentExactly(r, results[r]["search"].body)

\* C5: no exception of a source leaves connect: every source a GET request
\* invokes returns a status, and the request is never abandoned by an exception
C5_NoExceptionEscapes ==
    \A r \in Reqs :
        IsGet(r) =>
            /\ pc[r] # "raised"
            /\ \A s \in Sources : results[r][s] # Raised

\* the chain, in the order the spec gives
Chain == <<"cache", "archive", "origin", "search">>
ChainCalls(r) == SelectSeq(calls[r], LAMBDA c : c \in {"cache", "archive", "origin", "search"})

\* C6: within one GET request the sources are invoked in the order cache,
\* archive, origin, search, each at most once, and a source is invoked only
\* after every earlier one was invoked and returned a non-200 status
C6_StrictOrder ==
    \A r \in Reqs :
        IsGet(r) =>
            LET cs == ChainCalls(r) IN
            /\ Len(cs) <= Len(Chain)
            /\ \A i \in 1..Len(cs) :
                 /\ cs[i] = Chain[i]
                 /\ i < Len(cs) => Missed(r, cs[i])

C6_Witness ==
    \E r \in Reqs : Done(r) /\ IsGet(r) /\ ChainCalls(r) = Chain

\* a put of request r failed
PutFailed(r) == \E i \in 1..Len(PutsOf(r)) : ~PutsOf(r)[i].ok

\* C7: when the origin returned 200 with body B and the cache put failed, no
\* exception leaves connect and the chain still ends resolved with B sent
C7_PutFailureSwallowed ==
    \A r \in Reqs :
        (IsGet(r) /\ Hit(r, "origin") /\ PutFailed(r)) =>
            /\ pc[r] # "raised"
            /\ Done(r) => (connected[r] /\ SentExactly(r, results[r]["origin"].body))

C7_Witness ==
    /\ \E r \in Reqs :
          /\ Done(r) /\ Hit(r, "origin") /\ PutFailed(r)
          /\ DecodeRaises(results[r]["origin"].body)
          /\ SentExactly(r, results[r]["origin"].body)
    /\ \E r \in Reqs :
          /\ Done(r) /\ Hit(r, "origin") /\ PutFailed(r)
          /\ ~DecodeRaises(results[r]["origin"].body)

\* every put recorded so far was made by a GET request in its origin state
\* after the origin returned 200, with the origin's body
PutsFromOriginOnly ==
    \A i \in 1..Len(puts) :
        LET r == puts[i].req IN
        /\ IsGet(r) /\ Hit(r, "origin")
        /\ puts[i].data = results[r]["origin"].body
        /\ ~Hit(r, "cache") /\ ~Hit(r, "archive") /\ ~Called(r, "search")

\* a step that changes the store is the put of such a request
StoreChangeIsOriginPut ==
    store' # store =>
        \E r \in Reqs :
            /\ pc[r] = "push" /\ pc'[r] # "push"
            /\ IsGet(r) /\ Hit(r, "origin")
            /\ store' = [store EXCEPT ![generate_id(target_url[r])] =
                            Doc(target_url[r], Decode(results[r]["origin"].body), clock)]

\* C8: the cache store changes only by the put of a GET request in its origin
\* state whose origin fetch returned 200, and the content is that origin body;
\* requests resolved elsewhere, non-200 origin answers and non-GET requests
\* leave the store unchanged
C8_WritesOnlyOnOriginSuccess == []PutsFromOriginOnly /\ [][StoreChangeIsOriginPut]_vars

C8_Witness ==
    \E r1, r2, r3 \in Reqs :
        /\ Done(r1) /\ Hit(r1, "origin") /\ Len(PutsOf(r1)) = 1 /\ PutsOf(r1)[1].ok
        /\ store[generate_id(target_url[r1])].content = Decode(results[r1]["origin"].body)
        /\ Done(r2) /\ IsGet(r2) /\ Len(PutsOf(r2)) = 0
        /\ (Hit(r2, "search") \/ Hit(r2, "archive") \/ Missed(r2, "origin"))
        /\ (r3 = r2 \/ (Done(r3) /\ ~IsGet(r3)))

\* the content comes back unchanged from decode followed by encode
RoundTrips(b) == ~DecodeRaises(b) /\ Encode(Decode(b)) = b

\* r2 entered connect after r1 had left it
LaterThan(r2, r1) == r1 < r2 /\ pc[r2] # "idle" /\ r1 \notin overlap[r2]

\* puts[j] is a successful back-fill of url u by a request that resolved from the
\* origin before r2 arrived, and no put for u followed it
BackFilled(r2, j) ==
    /\ puts[j].ok
    /\ puts[j].url = target_url[r2]
    /\ Hit(puts[j].req, "origin") /\ Done(puts[j].req)
    /\ LaterThan(r2, puts[j].req)
    /\ RoundTrips(puts[j].data)
    /\ \A k \in (j + 1)..Len(puts) : puts[k].url # puts[j].url

\* the step in which request r makes its cache lookup
LookupStep(r) == pc[r] = "cache" /\ pc'[r] # "cache"

\* the lookup of a later request for a back-filled url returns the origin body
LaterLookupHits ==
    \A r2 \in Reqs : \A j \in 1..Len(puts) :
        (LookupStep(r2) /\ IsGet(r2) /\ BackFilled(r2, j)) =>
            /\ results'[r2]["cache"] = Res(200, puts[j].data)
            /\ connected'[r2]
            /\ buffered'[r2] = puts[j].data

\* the same, when the store answers the lookup
LaterLookupHitsIfAnswered ==
    \A r2 \in Reqs : \A j \in 1..Len(puts) :
        ( /\ LookupStep(r2) /\ IsGet(r2) /\ BackFilled(r2, j)
          /\ results'[r2]["cache"].st # 502 ) =>
            /\ results'[r2]["cache"] = Res(200, puts[j].data)
            /\ connected'[r2]
            /\ buffered'[r2] = puts[j].data

\* a request resolved in the cache state invokes nothing else and sends the
\* cached body
CacheHitIsFinal ==
    \A r \in Reqs :
        (IsGet(r) /\ Hit(r, "cache")) =>
            /\ ChainCalls(r) = <<"cache">>
            /\ "put" \notin {calls[r][i] : i \in 1..Len(calls[r])}
            /\ Done(r) => (connected[r] /\ SentExactly(r, results[r]["cache"].body))

\* C9 as stated: after a GET for u resolved from the origin with body B and its
\* put succeeded, every later GET for u (no put for u in between, B round-trips)
\* resolves in the cache state with body B and invokes no other source
C9_BackFillAsStated == [][LaterLookupHits]_vars /\ []CacheHitIsFinal

\* C9 amended: the same, provided the store answers the later request's lookup
\* (the lookup does not return 502)
C9_BackFill == [][LaterLookupHitsIfAnswered]_vars /\ []CacheHitIsFinal

C9_Witness ==
    \E r2 \in Reqs : \E j \in 1..Len(puts) :
        /\ Done(r2) /\ IsGet(r2) /\ BackFilled(r2, j)
        /\ target_url[r2] # SeedUrl
        /\ results[r2]["cache"] = Res(200, puts[j].data)
        /\ SentExactly(r2, puts[j].data)
        /\ calls[r2] = <<"cache">>

\* two GET requests for the same url were in connect at the same time and both
\* missed the cache and the archive; both have finished
ConcurrentMisses(r1, r2) ==
    /\ r1 < r2 /\ r1 \in overlap[r2]
    /\ IsGet(r1) /\ IsGet(r2) /\ target_url[r1] = target_url[r2]
    /\ Done(r1) /\ Done(r2)
    /\ Missed(r1, "cache") /\ Missed(r2, "cache")
    /\ Missed(r1, "archive") /\ Missed(r2, "archive")

\* the index in puts of the last put for u among those that satisfy P
PutIdx(u, okOnly) == {j \in 1..Len(puts) : puts[j].url = u /\ (okOnly => puts[j].ok)}
LastIdx(S) == CHOOSE j \in S : \A k \in S : k <= j

\* request r resolved from the origin, sent its own origin body and made one
\* put for u
ResolvedFromOrigin(r, u) ==
    /\ Hit(r, "origin") /\ connected[r]
    /\ SentExactly(r, results[r]["origin"].body)
    /\ Len(PutsOf(r)) = 1
    /\ PutsOf(r)[1].url = u /\ PutsOf(r)[1].data = results[r]["origin"].body

\* C10 as stated: both fall through to the origin, both end resolved with their
\* own origin body, both write the same address, and the store holds for it the
\* content of the last writer
C10_ConcurrentAsStated ==
    \A r1, r2 \in Reqs :
        ConcurrentMisses(r1, r2) =>
            LET u == target_url[r1] IN
            /\ ResolvedFromOrigin(r1, u) /\ ResolvedFromOrigin(r2, u)
            /\ store[generate_id(u)] =
                   Doc(u, Decode(puts[LastIdx(PutIdx(u, FALSE))].data),
                       LastIdx(PutIdx(u, FALSE)))

\* C10 amended: when moreover both origin fetches returned 200, both end
\* resolved with their own origin body and both call the put for the same
\* address; the store holds for it the content of the last writer whose put
\* succeeded, so identical bodies give the same content under every interleaving
C10_Concurrent ==
    \A r1, r2 \in Reqs :
        (ConcurrentMisses(r1, r2) /\ Hit(r1, "origin") /\ Hit(r2, "origin")) =>
            LET u == target_url[r1]
                oks == PutIdx(u, TRUE)
            IN
            /\ ResolvedFromOrigin(r1, u) /\ ResolvedFromOrigin(r2, u)
            /\ oks # {} =>
                   store[generate_id(u)] = Doc(u, Decode(puts[LastIdx(oks)].data), LastIdx(oks))
            /\ ( /\ oks # {} /\ puts[LastIdx(oks)].req \in {r1, r2}
                 /\ results[r1]["origin"].body = results[r2]["origin"].body ) =>
                   store[generate_id(u)].content = Decode(results[r1]["origin"].body)

C10_Witness ==
    \E r1, r2 \in Reqs :
        /\ ConcurrentMisses(r1, r2) /\ Hit(r1, "origin") /\ Hit(r2, "origin")
        /\ Len(puts) = 2 /\ puts[1].ok /\ puts[2].ok
        /\ puts[1].req = r2 /\ puts[2].req = r1
        /\ Decode(puts[1].data) # Decode(puts[2].data)
        /\ store[generate_id(target_url[r1])].content = Decode(puts[2].data)

\* the step in which request r calls push_cache_to_elasticsearch
PushStep(r) == pc[r] = "push" /\ pc'[r] # "push"

\* a get made right after a successful put of reversible bytes returns them
PutThenGet ==
    \A r \in Reqs :
        PushStep(r) =>
            LET p == puts'[Len(puts')] IN
            (p.ok /\ RoundTrips(p.data)) =>
                fetch_cache_from_elasticsearch(p.url, store', FALSE) = Res(200, p.data)

SamePutBefore(p, j) ==
    /\ puts[j].ok /\ puts[j].url = p.url /\ puts[j].data = p.data
    /\ \A k \in (j + 1)..Len(puts) : puts[k].url = p.url => puts[k].data = p.data

\* a put touches no other address, and a repeated identical put keeps the
\* document's url and content; the timestamp does not go back
RepeatedPutKeepsContent ==
    \A r \in Reqs :
        PushStep(r) =>
            LET p == puts'[Len(puts')]
                id == generate_id(p.url)
            IN
            /\ \A i \in Ids \ {id} : store'[i] = store[i]
            /\ (\E j \in 1..Len(puts) : SamePutBefore(p, j)) =>
                   /\ store'[id].present /\ store'[id].hascontent
                   /\ store'[id].url = store[id].url /\ store'[id].url = p.url
                   /\ store'[id].content = store[id].content
                   /\ store'[id].content = Decode(p.data)
                   /\ store'[id].timestamp >= store[id].timestamp
                   /\ p.ok => store'[id].timestamp > store[id].timestamp

\* C12: repeating put with identical (url, bytes) leaves one retrievable
\* document for address(url) whose url and content are those after the first
\* put; only the timestamp may change and other addresses are unchanged
C12_PutIdempotent == [][RepeatedPutKeepsContent]_vars

C12_Witness ==
    /\ Len(puts) = 2 /\ puts[1].ok /\ puts[2].ok
    /\ puts[1].url = puts[2].url /\ puts[1].data = puts[2].data
    /\ store[generate_id(puts[1].url)] = Doc(puts[1].url, Decode(puts[1].data), 2)
    /\ fetch_cache_from_elasticsearch(puts[1].url, store, FALSE).st = 200

\* the cache lookup ends in one of three outcomes and never raises; on 404 and
\* on 502 alike the request stands before the archive with nothing buffered
LookupOutcomes ==
    \A r \in Reqs :
        (LookupStep(r) /\ IsGet(r)) =>
            LET res == results'[r]["cache"]
                doc == store[generate_id(target_url[r])]
            IN
            /\ res.st \in {200, 404, 502}
            /\ res.st = 200 => (doc.present /\ doc.hascontent /\ res.body = Encode(doc.content))
            /\ res.st = 404 => (~doc.present /\ res.body = <<>>)
            /\ res.st = 502 => res.body = <<>>
            /\ (doc.present /\ ~doc.hascontent) => res.st = 502
            /\ ~doc.present => res.st \in {404, 502}
            /\ pc'[r] = "archive"
            /\ res.st # 200 => (~connected'[r] /\ buffered'[r] = <<>>)

\* after a lookup that returned 404 or 502 the archive is the next source
ArchiveAfterMiss ==
    \A r \in Reqs :
        (IsGet(r) /\ Missed(r, "cache") /\ pc[r] # "archive") =>
            /\ Called(r, "archive")
            /\ Len(calls[r]) >= 2 /\ calls[r][2] = "archive"

\* C13: the cache get reports 200 with the stored content, 404 with an empty
\* body when the document is absent, 502 with an empty body when the store
\* errors (a document without content included); it never raises, and the
\* chain goes on to the archive on 404 and on 502 alike
C13_GetOutcomes == [][LookupOutcomes]_vars /\ []ArchiveAfterMiss

C13_Witness ==
    \E r1, r2 \in Reqs :
        /\ results[r1]["cache"] = Res(404, <<>>) /\ Called(r1, "archive")
        /\ results[r2]["cache"] = Res(502, <<>>) /\ Called(r2, "archive")
        /\ store[generate_id(target_url[r2])].present
        /\ ~store[generate_id(target_url[r2])].hascontent

\* the bodies a GET request may hand to the client: the empty body and the
\* body of any source that returned 200 to it
UsableBodies(r) == {<<>>} \cup {results[r][src].body : src \in {s \in Sources : Hit(r, s)}}

\* C14: the body the client receives for a GET request is exactly one of the
\* cached content, the archived snapshot, the origin's 200 body, the raw search
\* results, the successful summary or the empty body; never the error text of
\* a failed source, never a concatenation
C14_BodyIsSourceContent ==
    \A r \in Reqs :
        (Done(r) /\ IsGet(r)) =>
            /\ Len(sent[r]) = 1
            /\ sent[r][1] \in UsableBodies(r)

\* C15: for a non-GET request connect relays the client's bytes to the origin
\* and the origin's response back to the client connection, so that the
\* response has been written to the client before connect returns
C15_RelayBothWays ==
    \A r \in Reqs :
        (pc[r] # "idle" /\ ~IsGet(r) /\ Done(r)) =>
            /\ upstream[r] # <<>>
            /\ reply[r] > 0 => sent[r] # <<>>

\* a request whose method is not GET has invoked no source and made no put
NonGetCallsNothing ==
    \A r \in Reqs :
        (pc[r] # "idle" /\ ~IsGet(r)) =>
            /\ calls[r] = <<>>
            /\ \A s \in Sources : ~Called(r, s)
            /\ Len(PutsOf(r)) = 0

\* a step of a request whose method is not GET leaves the store as it is
NonGetStepKeepsStore ==
    \A r \in Reqs :
        (pc'[r] # pc[r] /\ input'[r].method # "GET") => store' = store

\* C16: a request whose method is not GET invokes neither the cache lookup, the
\* archive, the origin fetch, the search query, the summarizer nor the cache
\* put, and leaves the cache store unchanged
C16_NonGetBypassesChain == []NonGetCallsNothing /\ [][NonGetStepKeepsStore]_vars

C16_Witness ==
    \E r \in Reqs :
        /\ Done(r) /\ input[r].method = "POST"
        /\ upstream[r] # <<>>
        /\ calls[r] = <<>> /\ Len(PutsOf(r)) = 0

\* the query holds the scheme delimiter at position i
DelimiterAt(q, i) == i + 2 <= Len(q) /\ q[i] = ":" /\ q[i + 1] = "/" /\ q[i + 2] = "/"

\* C17: the query query_to_serp derives from a url has the scheme prefix
\* stripped and holds no scheme delimiter and no character outside
\* alphanumerics and whitespace (no underscore, no punctuation)
C17_QuerySanitized ==
    \A r \in Reqs :
        Called(r, "search") =>
            LET q == query[r]
                cs == UrlChars(target_url[r])
            IN
            /\ \A i \in 1..Len(q) : q[i] \in Alnum \cup {" "}
            /\ \A i \in 1..Len(q) : ~DelimiterAt(q, i)
            /\ ~StartsWith(q, <<"h", "t", "t", "p">>)
            /\ Len(q) = Len(cs) - SchemeMatch(cs) + 1

\* how often request r made the call c
CallCount(r, c) == Len(SelectSeq(calls[r], LAMBDA x : x = c))

\* C18: every GET request ends in DONE: it makes at most one call per source,
\* at most one summarizer call and at most one put, and once it has stopped
\* it has sent the buffered body to the client exactly once and returned,
\* whatever the sources answered (200, 404, other status, exception)
C18_EndsInDone ==
    \A r \in Reqs :
        (IsGet(r) /\ pc[r] # "idle") =>
            /\ \A c \in Sources \cup {"put"} : CallCount(r, c) <= 1
            /\ Len(sent[r]) <= 1
            /\ ~InFlight(r) => (Done(r) /\ sent[r] = <<buffered[r]>>)

\* C19: when the search query returned 200 the summarizer is invoked and the
\* chain ends resolved whatever the summarizer returned; when the search query
\* returned a non-200 status the summarizer is not invoked and the chain ends
\* unresolved
C19_SearchIsTerminal ==
    \A r \in Reqs :
        IsGet(r) =>
            /\ Missed(r, "search") => ~Called(r, "llm")
            /\ (Called(r, "search") /\ Done(r)) =>
                   /\ Hit(r, "search") => (Called(r, "llm") /\ connected[r])
                   /\ Missed(r, "search") => ~connected[r]

C19_Witness ==
    \E r1, r2 \in Reqs :
        /\ Done(r1) /\ Hit(r1, "search") /\ Missed(r1, "llm") /\ connected[r1]
        /\ Done(r2) /\ Missed(r2, "search") /\ ~Called(r2, "llm") /\ ~connected[r2]

\* C20: connect returns true exactly when the method is GET and some source of
\* the chain returned 200; for a non-GET request it returns false even though
\* the request bytes were relayed to the origin
C20_ReturnValue ==
    \A r \in Reqs :
        Done(r) =>
            /\ connected[r] <=>
                   (IsGet(r) /\ \E s \in {"cache", "archive", "origin", "search"} : Hit(r, s))
            /\ ~IsGet(r) => (~connected[r] /\ upstream[r] # <<>>)

C20_Witness ==
    \E r1, r2 \in Reqs :
        /\ Done(r1) /\ input[r1].method = "POST" /\ upstream[r1] # <<>> /\ ~connected[r1]
        /\ Done(r2) /\ IsGet(r2) /\ connected[r2] /\ Hit(r2, "archive")

====
